---- MODULE Spec2Model ----
(***************************************************************************)
(* A model of the gocaptcha image generator: the canvas (CaptchaImage),   *)
(* its drawing operations, the export, the colour helpers and the         *)
(* package-level random generator of the shared-global variant.           *)
(*                                                                         *)
(* Source files: src/unnamed/part_000 (variant that draws from the        *)
(* math/rand top-level functions), src/unnamed/part_001 (variant with the *)
(* package-level generator r, the font registry and the colour helpers),  *)
(* src/utils.go (colour helpers of the first variant).                    *)
(***************************************************************************)
EXTENDS Integers, Sequences, FiniteSets, TLC

VARIABLES
    captcha,    \* the canvas: a CaptchaImage {nrgba, width, height, Complex, Error}
    made,       \* the arguments New was called with
    fontFamily, \* the package-level font registry: the kind of each font file
    panic,      \* "none", or the run-time panic that ended the program
    ops,        \* how many drawing operations have been called on the canvas
    last,       \* the most recent call: its name, arguments and result
    line,       \* drawBeeline run iteration by iteration: its locals
    col,        \* the colour helper being run: its draws, raw channels, result
    r,          \* the package-level generator of the shared variant: its state
    gen         \* the goroutines generating images: canvas, position, locals

pipe == <<made, fontFamily, panic, ops, last, r, gen>>

vars == <<captcha, made, fontFamily, panic, ops, last, line, col, r, gen>>

(***************************************************************************)
(* Bounds of the model.                                                    *)
(***************************************************************************)
\* A pipeline applies at most MaxOps drawing operations to its canvas.
MaxOps == 2

\* SetFontFamily registers at most MaxFonts font files.
MaxFonts == 1

\* DrawLine is asked for at most MaxLines lines, DrawText for a text of at
\* most MaxText characters.
MaxLines == 1

MaxText == 2

\* The end points handed to drawBeeline lie in 0..MaxPtX by 0..MaxPtY.
MaxPtX == 10

MaxPtY == 2

(***************************************************************************)
(* Arithmetic helpers.                                                     *)
(***************************************************************************)
Abs(x) == IF x < 0 THEN -x ELSE x

Min(a, b) == IF a < b THEN a ELSE b

Max(a, b) == IF a > b THEN a ELSE b

\* uint8(v) of an int: Go keeps the low eight bits.
Uint8(v) == v % 256

\* uint8(f) of a float64 holding the whole number v.  Inside 0..255 the
\* conversion is exact; outside, the Go specification leaves the result to
\* the implementation: the low eight bits (amd64) or saturation (arm64).
FloatToUint8(v) == IF v \in 0..255 THEN {v} ELSE {v % 256, 255}

(***************************************************************************)
(* The random source.  Intn(n) is every value rand.Intn(n) / r.Intn(n) can *)
(* return (n > 0; the call panics for n <= 0, which callers model).        *)
(* IntnSample(n), its least and greatest value, is what the canvas         *)
(* pipeline draws.                                                         *)
(***************************************************************************)
Intn(n) == 0..(n - 1)

IntnSample(n) == {v \in Intn(n) : v = 0 \/ v = n - 1}

(***************************************************************************)
(* Colour helpers.                                                         *)
(***************************************************************************)
RGBA(red, green, blue, alpha) ==
    [R |-> red, G |-> green, B |-> blue, A |-> alpha]

\* randColor without its upper clamp of blue (the mutant of C6).
randColor_NoUpperClamp(red, green) ==
    LET blue == IF (red + green) > 400 THEN 0 ELSE 400 - green - red
    IN  RGBA(Uint8(red), Uint8(green), Uint8(blue), Uint8(255))

\* randColor with its draws red and green made explicit (the draw for blue
\* is overwritten before it is read).
randColor(red, green) ==
    LET blue0 == IF (red + green) > 400 THEN 0 ELSE 400 - green - red
        blue  == IF blue0 > 255 THEN 255 ELSE blue0
    IN  RGBA(Uint8(red), Uint8(green), Uint8(blue), Uint8(255))

\* One channel of randDeepColor before it is stored: math.Abs(math.Min(
\* float64(channel) - increase, 255)).
deepChannel(channel, increase) == Abs(Min(channel - increase, 255))

\* The colours randDeepColor can return for a base colour and an increase.
randDeepColor(base, increase) ==
    { RGBA(red, g, b, Uint8(255)) :
        red \in FloatToUint8(deepChannel(base.R, increase)),
        g \in FloatToUint8(deepChannel(base.G, increase)),
        b \in FloatToUint8(deepChannel(base.B, increase)) }

\* RandLightColor with its three draws made explicit.
RandLightColor(red, green, blue) ==
    RGBA(Uint8(red + 200), Uint8(green + 200), Uint8(blue + 200), Uint8(255))

\* No colour, and the colour helpers at rest.
NoColor == RGBA(0, 0, 0, 0)

ColIdle ==
    [pc |-> "idle", red |-> 0, green |-> 0, increase |-> 0,
     raw |-> <<0, 0, 0>>, out |-> NoColor]

(***************************************************************************)
(* The canvas.                                                             *)
(***************************************************************************)
\* The canvas sizes and background colours the model constructs.  A
\* background is a color.RGBA (alpha-premultiplied): opaque white, a
\* half-transparent red, fully transparent.
Dims == {<<20, 1>>, <<3, 3>>}

BgColors == {RGBA(255, 255, 255, 255), RGBA(100, 0, 0, 128), RGBA(0, 0, 0, 0)}

\* The colours handed to drawBeeline and DrawBorder.
PenColors == {RGBA(0, 0, 0, 255)}

\* image.Rect(0, 0, width, height): the points of the pixel buffer.
Rect(width, height) == (0..(width - 1)) \X (0..(height - 1))

\* color.NRGBAModel.Convert of a color.RGBA, which image.NRGBA.Set (and
\* draw.Draw through it) applies to every colour it stores: the channels are
\* divided by alpha.  Go computes (r16 * 0xffff) / a16 on the 16-bit values
\* r16 = c.R * 0x101, a16 = c.A * 0x101; the common factor 0x101 is cancelled
\* here, which leaves the quotient as it is.
NRGBAConvert(c) ==
    IF c.A = 255 THEN RGBA(c.R, c.G, c.B, 255)
    ELSE IF c.A = 0 THEN RGBA(0, 0, 0, 0)
    ELSE RGBA(Uint8(((c.R * 65535) \div c.A) \div 256),
              Uint8(((c.G * 65535) \div c.A) \div 256),
              Uint8(((c.B * 65535) \div c.A) \div 256),
              c.A)

\* captcha.nrgba.Set(x, y, c): a point outside the buffer is ignored.
Set(nrgba, x, y, c) ==
    IF <<x, y>> \in DOMAIN nrgba
    THEN [nrgba EXCEPT ![<<x, y>>] = NRGBAConvert(c)]
    ELSE nrgba

\* New without the draw.Draw of the background: the buffer as image.NewNRGBA
\* leaves it, every channel zero (the mutant of C5).
New_NoFill(width, height, bgColor) ==
    [nrgba   |-> [p \in Rect(width, height) |-> RGBA(0, 0, 0, 0)],
     width   |-> width,
     height  |-> height,
     Complex |-> 0,
     Error   |-> "nil"]

\* New / NewCaptchaImage: image.NewNRGBA and draw.Draw of the uniform
\* background over all of it.
New(width, height, bgColor) ==
    [nrgba   |-> [p \in Rect(width, height) |-> NRGBAConvert(bgColor)],
     width   |-> width,
     height  |-> height,
     Complex |-> 0,
     Error   |-> "nil"]

\* No call made yet.
NoCall ==
    [op |-> "none", arg |-> 0, errBefore |-> "nil", fonts |-> 0,
     changed |-> FALSE, err |-> "nil", encoder |-> "none", out |-> <<>>,
     before |-> <<>>]

\* No goroutine started.
GenIdle == <<>>

\* No canvas constructed (the specifications of the colour helpers).
NoCanvas == [nrgba |-> <<>>, width |-> 0, height |-> 0, Complex |-> 0,
             Error |-> "nil"]

(***************************************************************************)
(* drawBeeline: the thick-line primitive.                                  *)
(***************************************************************************)
Point(x, y) == [X |-> x, Y |-> y]

\* The locals of drawBeeline before its loop.
beelineStart(point1, point2) ==
    LET dx == Abs(point1.X - point2.X)
        dy == Abs(point2.Y - point1.Y)
    IN  [point1 |-> point1, point2 |-> point2,
         dx |-> dx, dy |-> dy,
         sx |-> IF point1.X >= point2.X THEN -1 ELSE 1,
         sy |-> IF point1.Y >= point2.Y THEN -1 ELSE 1,
         err |-> dx - dy]

\* A stroke that widens the point along its column instead of its row (the
\* mutant of C7).
beelineStroke_Column(nrgba, p, lineColor) ==
    Set(Set(Set(Set(Set(nrgba, p.X, p.Y, lineColor),
                    p.X, p.Y + 1, lineColor),
                p.X, p.Y - 1, lineColor),
            p.X, p.Y + 2, lineColor),
        p.X, p.Y - 2, lineColor)

\* The five Set calls of one iteration: the point and two neighbours on each
\* side of it in its row.
beelineStroke(nrgba, p, lineColor) ==
    Set(Set(Set(Set(Set(nrgba, p.X, p.Y, lineColor),
                    p.X + 1, p.Y, lineColor),
                p.X - 1, p.Y, lineColor),
            p.X + 2, p.Y, lineColor),
        p.X - 2, p.Y, lineColor)

\* An end test that is satisfied as soon as one coordinate matches (the
\* mutant of C8).
beelineArrived_Either(b) == b.point1.X = b.point2.X \/ b.point1.Y = b.point2.Y

\* The test that ends the loop.
beelineArrived(b) == b.point1.X = b.point2.X /\ b.point1.Y = b.point2.Y

\* The rest of an iteration that has not arrived: err and point1 advance.
beelineAdvance(b) ==
    LET e2    == b.err * 2
        stepX == e2 > -b.dy
        stepY == e2 < b.dx
    IN  [b EXCEPT
           !.err = b.err - (IF stepX THEN b.dy ELSE 0)
                         + (IF stepY THEN b.dx ELSE 0),
           !.point1 = Point(b.point1.X + (IF stepX THEN b.sx ELSE 0),
                            b.point1.Y + (IF stepY THEN b.sy ELSE 0))]

\* drawBeeline run iteration by iteration (SpecLine), on canvases a line
\* from (0,0) to (MaxPtX, MaxPtY) crosses.
LineDims == {<<20, 1>>, <<10, 3>>}

NoLocals == beelineStart(Point(0, 0), Point(0, 0))

LineIdle ==
    [pc |-> "idle", b |-> NoLocals, from |-> Point(0, 0),
     lineColor |-> NoColor, before |-> <<>>, iters |-> 0]

Points == {Point(x, y) : x \in 0..MaxPtX, y \in 0..MaxPtY}

\* The call: the guard on Error, then the locals are set up.
BeelineCall ==
    /\ UNCHANGED <<captcha, pipe, col>>
    /\ line.pc = "idle"
    /\ \E point1 \in Points, point2 \in Points, lineColor \in PenColors :
         line' = [pc        |-> IF captcha.Error # "nil" THEN "done" ELSE "loop",
                  b         |-> beelineStart(point1, point2),
                  from      |-> point1,
                  lineColor |-> lineColor,
                  before    |-> captcha.nrgba,
                  iters     |-> 0]

\* One iteration of the loop: paint, then return on arrival or advance.
BeelineIter ==
    /\ UNCHANGED <<pipe, col>>
    /\ line.pc = "loop"
    /\ captcha' = [captcha EXCEPT
                     !.nrgba = beelineStroke(@, line.b.point1, line.lineColor)]
    /\ line' = IF beelineArrived(line.b)
               THEN [line EXCEPT !.pc = "done", !.iters = @ + 1]
               ELSE [line EXCEPT !.b = beelineAdvance(@), !.iters = @ + 1]

\* A canvas as constructed, or one whose Error a failed DrawText has set
\* before any pixel was written.
InitLine ==
    /\ \E d \in LineDims, bg \in BgColors, e \in {"nil", "read font"} :
         /\ captcha = [New(d[1], d[2], bg) EXCEPT !.Error = e]
         /\ made = [width |-> d[1], height |-> d[2], bgColor |-> bg]
    /\ fontFamily = <<>>
    /\ panic = "none"
    /\ ops = 0
    /\ last = NoCall
    /\ line = LineIdle
    /\ col = ColIdle
    /\ r = 0
    /\ gen = GenIdle

NextLine == BeelineCall \/ BeelineIter

SpecLine == InitLine /\ [][NextLine]_vars

\* The loop is scheduled until it returns.
SpecLineFair == SpecLine /\ WF_vars(BeelineIter)

(***************************************************************************)
(* The drawing operations.  Each is an operator from the canvas (and the   *)
(* call's arguments) to the set of its outcomes, one for every choice of   *)
(* the random draws and of the collaborators' results: an outcome is the   *)
(* canvas it leaves and the panic, if any, that ended the call.            *)
(***************************************************************************)
Ret(c) == {[c |-> c, panic |-> "none"]}

Panics(c, msg) == {[c |-> c, panic |-> msg]}

\* rand.Intn(n) with n <= 0, and an integer division by zero.
IntnPanic == "invalid argument to Intn"

DividePanic == "integer divide by zero"

\* int(math.Sin(..) * amplitude): math.Sin lies in -1..1, so the product,
\* truncated, is some whole number between -amplitude and amplitude.
SinRows(amplitude) == (-amplitude)..amplitude

\* Random(min, max) of the repository (not among the source files): a value
\* between min and max, of which the model takes the whole ones.
Random(min, max) == min..max

\* DrawHollowLine: the loop over x1.  Column x gets Set(x, y) and the run
\* Set(x, y + i), i = 0..w, all in lineColor, where y = rowOf[x] is the row
\* the sine gives that column; a column is written once, so the buffer the
\* loop leaves is the old one with those runs painted.
hollowColumns(nrgba, x1, x2, rows, w, lineColor) ==
    { [p \in DOMAIN nrgba |->
          IF p[1] \in x1..(x2 - 1) /\ p[2] \in rowOf[p[1]]..(rowOf[p[1]] + w)
          THEN NRGBAConvert(lineColor) ELSE nrgba[p]]
      : rowOf \in [x1..(x2 - 1) -> rows] }

\* DrawHollowLine without its guard on Error (the mutant of C1).
drawHollowLine_NoGuard(c) ==
    LET first == c.width \div 20
        end   == first * 19
        lineColor == RGBA(245, 250, 251, 255)
        w     == c.height \div 20
    IN  IF first <= 0 THEN Panics(c, IntnPanic)
        ELSE UNION {
               LET k        == n + 3           \* multiple = k / 5
                   negative == (2 * k) % 3 = 0 \* int(multiple*10)%3 == 0
                   rows == IF negative
                           THEN {y + c.height \div 2 :
                                   y \in SinRows(c.height \div 3)}
                           ELSE SinRows(c.height \div 3)
               IN  { [c |-> [c EXCEPT !.nrgba = px], panic |-> "none"] :
                       px \in hollowColumns(c.nrgba, a, b + end, rows, w,
                                            lineColor) }
               : a \in IntnSample(first), b \in IntnSample(first),
                 n \in IntnSample(5) }

drawHollowLine(c) ==
    IF c.Error # "nil" THEN Ret(c) ELSE drawHollowLine_NoGuard(c)

\* DrawSineLine: the loop over px.  Column px gets Set(px + i, int(py), c)
\* for i = height/5 down to 1, where int(py) = rowOf[px] is some whole number
\* of rows (py = a*sin(..) + b + width/5); every Set is in the one colour c.
sineColumns(nrgba, px2, rows, run, c) ==
    IF run <= 0 \/ px2 <= 0 THEN {nrgba}
    ELSE { [p \in DOMAIN nrgba |->
              IF \E px \in 0..(px2 - 1) :
                   p[1] - px \in 1..run /\ p[2] = rowOf[px]
              THEN NRGBAConvert(c) ELSE nrgba[p]]
           : rowOf \in [0..(px2 - 1) -> rows] }

drawSineLine(c) ==
    IF c.Error # "nil" THEN Ret(c)
    ELSE IF c.height \div 2 <= 0 THEN Panics(c, IntnPanic)
    ELSE UNION {
           LET rows == (c.width \div 5 - a - c.height \div 4 - 1) ..
                       (c.width \div 5 + a + c.height \div 4 + 1)
           IN  { [c |-> [c EXCEPT !.nrgba = px], panic |-> "none"] :
                   px \in sineColumns(c.nrgba, px2, rows,
                                      c.height \div 5, RGBA(red, g, b, 255)) }
           : a \in IntnSample(c.height \div 2),
             px2 \in Random((c.width * 4) \div 5, c.width),
             red \in IntnSample(150), g \in IntnSample(150),
             b \in IntnSample(150) }

\* drawBeeline as DrawLine calls it: the loop run to its return.
RECURSIVE beelineLoop(_, _, _)
beelineLoop(nrgba, b, lineColor) ==
    LET painted == beelineStroke(nrgba, b.point1, lineColor)
    IN  IF beelineArrived(b) THEN painted
        ELSE beelineLoop(painted, beelineAdvance(b), lineColor)

drawBeeline(c, point1, point2, lineColor) ==
    IF c.Error # "nil" THEN c
    ELSE [c EXCEPT !.nrgba = beelineLoop(@, beelineStart(point1, point2),
                                         lineColor)]

\* The colours randColor and randDeepColor return for the draws of the
\* pipeline.
RandColors ==
    {randColor(red, g) : red \in IntnSample(255), g \in IntnSample(255)}

DeepColors ==
    UNION {randDeepColor(base, 30 + i) : base \in RandColors,
                                         i \in IntnSample(255)}

LightColors ==
    {RandLightColor(red, g, b) : red \in IntnSample(55), g \in IntnSample(55),
                               b \in IntnSample(55)}

\* An outcome from which a loop goes on: no panic, no error stored.
Running(o) == o.panic = "none" /\ o.c.Error = "nil"

\* DrawLine: the body of its loop for line i, from canvas c.
drawLineBody(c, i) ==
    LET first == c.width \div 10
        end   == first * 9
        y     == c.height \div 3
    IN  IF first <= 0 \/ y <= 0 THEN Panics(c, IntnPanic)
        ELSE { [c |-> drawBeeline(c,
                        Point(x1, IF i % 2 = 0 THEN y1 + y * 2
                                  ELSE y1 + y * (i % 2)),
                        Point(x2 + end, IF i % 2 = 0 THEN y2 ELSE y2 + y * 2),
                        deep),
                panic |-> "none"]
               : x1 \in IntnSample(first), x2 \in IntnSample(first),
                 y1 \in IntnSample(y), y2 \in IntnSample(y),
                 deep \in DeepColors }

\* DrawLine: lines i..num-1, from each outcome of the lines before.
RECURSIVE drawLineFrom(_, _, _)
drawLineFrom(outcomes, i, num) ==
    IF ~(i < num) THEN outcomes
    ELSE drawLineFrom(
           UNION { IF Running(o) THEN drawLineBody(o.c, i) ELSE {o} :
                     o \in outcomes },
           i + 1, num)

drawLine(c, num) ==
    IF c.Error # "nil" THEN Ret(c) ELSE drawLineFrom(Ret(c), 0, num)

\* DrawBorder: its two loops.
RECURSIVE borderRows(_, _, _, _)
borderRows(nrgba, x, c, borderColor) ==
    IF ~(x < c.width) THEN nrgba
    ELSE borderRows(Set(Set(nrgba, x, 0, borderColor),
                        x, c.height - 1, borderColor),
                    x + 1, c, borderColor)

RECURSIVE borderColumns(_, _, _, _)
borderColumns(nrgba, y, c, borderColor) ==
    IF ~(y < c.height) THEN nrgba
    ELSE borderColumns(Set(Set(nrgba, 0, y, borderColor),
                           c.width - 1, y, borderColor),
                       y + 1, c, borderColor)

\* DrawBorder without its guard on Error.
drawBorder_NoGuard(c, borderColor) ==
    Ret([c EXCEPT !.nrgba = borderColumns(borderRows(@, 0, c, borderColor),
                                          0, c, borderColor)])

\* DrawBorder without its second loop: rows 0 and height-1 only (the mutant
\* of C11).
drawBorder_RowsOnly(c, borderColor) ==
    IF c.Error # "nil" THEN Ret(c)
    ELSE Ret([c EXCEPT !.nrgba = borderRows(@, 0, c, borderColor)])

drawBorder(c, borderColor) ==
    IF c.Error # "nil" THEN Ret(c) ELSE drawBorder_NoGuard(c, borderColor)

\* The colours DrawBorder is called with: an opaque one and a
\* half-transparent one (color.RGBA, alpha-premultiplied).
BorderColors == PenColors \cup {RGBA(100, 0, 0, 128)}

\* The complexities, and the densities DrawNoise and DrawTextNoise take
\* from them.
CaptchaComplexLower == 0

CaptchaComplexMedium == 1

CaptchaComplexHigh == 2

Complexities ==
    {CaptchaComplexLower, CaptchaComplexMedium, CaptchaComplexHigh}

noiseDensity(complex) ==
    IF complex = CaptchaComplexLower THEN 28
    ELSE IF complex = CaptchaComplexMedium THEN 18
    ELSE IF complex = CaptchaComplexHigh THEN 8
    ELSE 18

textNoiseDensity(complex) ==
    IF complex = CaptchaComplexLower THEN 2000
    ELSE IF complex = CaptchaComplexMedium THEN 1500
    ELSE IF complex = CaptchaComplexHigh THEN 1000
    ELSE 1500

\* DrawNoise: iteration i of maxSize, from each pixel buffer of buffers.
RECURSIVE noiseLoop(_, _, _, _)
noiseLoop(buffers, i, maxSize, c) ==
    IF ~(i < maxSize) THEN buffers
    ELSE noiseLoop(
           UNION {
             { LET dot == Set(nrgba, rw, rh, c1)
               IN  IF size % 3 = 0 THEN Set(dot, rw + 1, rh + 1, c2)
                   ELSE dot
               : rw \in IntnSample(c.width), rh \in IntnSample(c.height),
                 c1 \in RandColors, size \in IntnSample(maxSize),
                 c2 \in RandColors }
             : nrgba \in buffers },
           i + 1, maxSize, c)

drawNoise(c, complex) ==
    IF c.Error # "nil" THEN Ret(c)
    ELSE LET maxSize == (c.height * c.width) \div noiseDensity(complex)
         IN  { [c |-> [c EXCEPT !.nrgba = px], panic |-> "none"] :
                 px \in noiseLoop({c.nrgba}, 0, maxSize, c) }

\* RandFontFamily: "panic" for the empty registry (r.Intn(0)), the error of
\* ioutil.ReadFile or freetype.ParseFont for a file that is missing or
\* malformed, "nil" with the font otherwise.
fontError(kind) ==
    IF kind = "missing" THEN "read font"
    ELSE IF kind = "corrupt" THEN "parse font"
    ELSE "nil"

RandFontFamily(fonts) ==
    IF Len(fonts) <= 0 THEN {"panic"}
    ELSE {fontError(fonts[i + 1]) : i \in IntnSample(Len(fonts))}

\* c.DrawString(text, freetype.Pt(x, y)) of the text renderer, for one
\* character of whole size `size`: the error it returns, or the glyph
\* stamped, taken as the box of that size standing on the pen position.
FontKinds == {"ok", "missing", "corrupt"}

DrawStringErrors == {"nil", "draw string"}

stampGlyph(nrgba, x, y, size, src) ==
    [p \in DOMAIN nrgba |->
        IF p[1] \in x..(x + size - 1) /\ p[2] \in (y - size + 1)..y
        THEN NRGBAConvert(src) ELSE nrgba[p]]

\* DrawTextNoise: the body of its loop from canvas c; rawFontSize =
\* height/(1 + k/10), fontSize = rawFontSize/2 + j.
textNoiseBody(c, k, fonts) ==
    UNION {
      IF f = "panic" THEN Panics(c, IntnPanic)
      ELSE IF f # "nil" THEN Ret([c EXCEPT !.Error = f])
      ELSE IF e # "nil" THEN Ret([c EXCEPT !.Error = e])
      ELSE Ret([c EXCEPT !.nrgba =
                  stampGlyph(@, rw, rh,
                             (10 * c.height) \div (2 * (10 + k)) + j, src)])
      : rw \in IntnSample(c.width), rh \in IntnSample(c.height),
        j \in IntnSample(5), src \in LightColors,
        f \in RandFontFamily(fonts), e \in DrawStringErrors }

\* DrawTextNoise: iterations i..maxSize-1, from each outcome of those before.
RECURSIVE textNoiseFrom(_, _, _, _, _)
textNoiseFrom(outcomes, i, maxSize, k, fonts) ==
    IF ~(i < maxSize) THEN outcomes
    ELSE textNoiseFrom(
           UNION { IF Running(o) THEN textNoiseBody(o.c, k, fonts) ELSE {o} :
                     o \in outcomes },
           i + 1, maxSize, k, fonts)

drawTextNoise(c, complex, fonts) ==
    IF c.Error # "nil" THEN Ret(c)
    ELSE LET maxSize == (c.height * c.width) \div textNoiseDensity(complex)
         IN  UNION { textNoiseFrom(Ret(c), 0, maxSize, k, fonts) :
                       k \in IntnSample(7) }

\* DrawText: the body of its loop for character i of n, from canvas c;
\* fontSize = height/(1 + k/9), of which int(fontSize) is 9*height \div (9+k).
drawTextBody(c, i, n, fonts) ==
    LET fontWidth == c.width \div n
    IN  UNION {
          LET size == (9 * c.height) \div (9 + k)
          IN  IF f = "panic" THEN Panics(c, IntnPanic)
              ELSE IF f # "nil" THEN Ret([c EXCEPT !.Error = f])
              ELSE IF size = 0 THEN Panics(c, DividePanic)
              ELSE IF c.height \div 2 <= 0 THEN Panics(c, IntnPanic)
              ELSE UNION {
                     IF e # "nil" THEN Ret([c EXCEPT !.Error = e])
                     ELSE Ret([c EXCEPT !.nrgba =
                                 stampGlyph(@,
                                   fontWidth * i + fontWidth \div size,
                                   5 + h + (9 * c.height) \div (2 * (9 + k)),
                                   size, src)])
                     : h \in IntnSample(c.height \div 2),
                       e \in DrawStringErrors }
          : k \in IntnSample(7), src \in DeepColors,
            f \in RandFontFamily(fonts) }

\* DrawText: characters i..n-1, from each outcome of those before.
RECURSIVE drawTextFrom(_, _, _, _)
drawTextFrom(outcomes, i, n, fonts) ==
    IF ~(i < n) THEN outcomes
    ELSE drawTextFrom(
           UNION { IF Running(o) THEN drawTextBody(o.c, i, n, fonts) ELSE {o} :
                     o \in outcomes },
           i + 1, n, fonts)

drawText(c, n, fonts) ==
    IF c.Error # "nil" THEN Ret(c)
    ELSE IF n = 0 THEN Panics(c, DividePanic)
    ELSE drawTextFrom(Ret(c), 0, n, fonts)

(***************************************************************************)
(* The export.                                                             *)
(***************************************************************************)
ImageFormatPng == 0

ImageFormatJpeg == 1

ImageFormatGif == 2

\* The formats SaveImage is called with: the three it knows, and two it
\* does not.
Formats == {ImageFormatPng, ImageFormatJpeg, ImageFormatGif, 3, -1}

\* The calls that export the canvas.
Exports == {"SaveImage", "Save"}

\* What an encoder writes for a pixel buffer: the image it holds, under the
\* encoder's name and option.  The writer may fail, which the encoder
\* returns as its error.
WriterErrors == {"nil", "write"}

Encoded(encoder, option, nrgba, werr) ==
    [err |-> werr, encoder |-> encoder,
     out |-> IF werr = "nil" THEN <<encoder, option, nrgba>> ELSE <<>>]

\* SaveImage that encodes PNG for a format it does not know (the mutant of
\* C4).
saveImage_DefaultPng(c, imageFormat, werr) ==
    IF imageFormat = ImageFormatJpeg
    THEN Encoded("jpeg", 100, c.nrgba, werr)
    ELSE IF imageFormat = ImageFormatGif
    THEN Encoded("gif", 256, c.nrgba, werr)
    ELSE Encoded("png", 0, c.nrgba, werr)

\* SaveImage: error, encoder called and bytes written.
saveImage(c, imageFormat, werr) ==
    IF imageFormat = ImageFormatPng
    THEN Encoded("png", 0, c.nrgba, werr)
    ELSE IF imageFormat = ImageFormatJpeg
    THEN Encoded("jpeg", 100, c.nrgba, werr)
    ELSE IF imageFormat = ImageFormatGif
    THEN Encoded("gif", 256, c.nrgba, werr)
    ELSE [err |-> "not supported image format", encoder |-> "none",
          out |-> <<>>]

\* Save: jpeg.Encode with default options into a bytes.Buffer, whose writes
\* do not fail.
save(c) == Encoded("jpeg", 75, c.nrgba, "nil")

(***************************************************************************)
(* The pipeline (Spec): a canvas is constructed, fonts are registered,     *)
(* drawing operations are applied to the canvas and it is exported.  The   *)
(* caller keeps the order the design gives: the registry is filled before  *)
(* image generation begins, and the export consumes the finished canvas.   *)
(***************************************************************************)
DrawOps ==
    {"DrawHollowLine", "DrawSineLine", "DrawLine", "DrawBorder", "DrawNoise",
     "DrawTextNoise", "DrawText"}

\* A drawing operation op(arg) is called and ends in one of outcomes.
Draw(op, arg, outcomes) ==
    /\ panic = "none"
    /\ last.op \notin Exports
    /\ ops < MaxOps
    /\ \E o \in outcomes :
         /\ captcha' = o.c
         /\ panic' = o.panic
         /\ last' = [NoCall EXCEPT !.op = op, !.arg = arg,
                                   !.errBefore = captcha.Error,
                                   !.fonts = Len(fontFamily),
                                   !.changed = (o.c.nrgba # captcha.nrgba),
                                   !.before = IF op = "DrawBorder"
                                              THEN captcha.nrgba ELSE <<>>]
    /\ ops' = ops + 1
    /\ UNCHANGED <<made, fontFamily, line, col, r, gen>>

DrawHollowLine == Draw("DrawHollowLine", 0, drawHollowLine(captcha))

DrawSineLine == Draw("DrawSineLine", 0, drawSineLine(captcha))

DrawLine == \E num \in 0..MaxLines : Draw("DrawLine", num, drawLine(captcha, num))

DrawBorder ==
    \E borderColor \in BorderColors :
        Draw("DrawBorder", borderColor, drawBorder(captcha, borderColor))

DrawNoise ==
    \E complex \in Complexities :
        Draw("DrawNoise", complex, drawNoise(captcha, complex))

DrawTextNoise ==
    \E complex \in Complexities :
        Draw("DrawTextNoise", complex,
             drawTextNoise(captcha, complex, fontFamily))

DrawText ==
    \E n \in 0..MaxText : Draw("DrawText", n, drawText(captcha, n, fontFamily))

\* SaveImage(w, imageFormat).
SaveImage ==
    /\ panic = "none"
    /\ \E imageFormat \in Formats, werr \in WriterErrors :
         LET res == saveImage(captcha, imageFormat, werr)
         IN  last' = [NoCall EXCEPT !.op = "SaveImage", !.arg = imageFormat,
                                    !.errBefore = captcha.Error,
                                    !.fonts = Len(fontFamily),
                                    !.err = res.err, !.encoder = res.encoder,
                                    !.out = res.out]
    /\ UNCHANGED <<captcha, made, fontFamily, panic, ops, line, col, r, gen>>

\* Save().
Save ==
    /\ panic = "none"
    /\ LET res == save(captcha)
       IN  last' = [NoCall EXCEPT !.op = "Save", !.arg = ImageFormatJpeg,
                                  !.errBefore = captcha.Error,
                                  !.fonts = Len(fontFamily),
                                  !.err = res.err, !.encoder = res.encoder,
                                  !.out = res.out]
    /\ UNCHANGED <<captcha, made, fontFamily, panic, ops, line, col, r, gen>>

\* SetFontFamily(fontPath): one font file is appended to the registry.
SetFontFamily ==
    /\ panic = "none"
    /\ ops = 0 /\ last.op \notin Exports
    /\ Len(fontFamily) < MaxFonts
    /\ \E kind \in FontKinds : fontFamily' = Append(fontFamily, kind)
    /\ last' = [NoCall EXCEPT !.op = "SetFontFamily",
                              !.errBefore = captcha.Error,
                              !.fonts = Len(fontFamily)]
    /\ UNCHANGED <<captcha, made, panic, ops, line, col, r, gen>>

\* The canvas as New returns it, the registry empty.
Init ==
    /\ \E d \in Dims, bg \in BgColors :
         /\ captcha = New(d[1], d[2], bg)
         /\ made = [width |-> d[1], height |-> d[2], bgColor |-> bg]
    /\ fontFamily = <<>>
    /\ panic = "none"
    /\ ops = 0
    /\ last = NoCall
    /\ line = LineIdle
    /\ col = ColIdle
    /\ r = 0
    /\ gen = GenIdle

Next ==
    \/ DrawHollowLine
    \/ DrawSineLine
    \/ DrawLine
    \/ DrawBorder
    \/ DrawNoise
    \/ DrawTextNoise
    \/ DrawText
    \/ SaveImage
    \/ Save
    \/ SetFontFamily

Spec == Init /\ [][Next]_vars

(***************************************************************************)
(* The colour helpers as calls: SpecColor runs randColor and randDeepColor *)
(* over the draws of the random source.                                    *)
(***************************************************************************)
\* randColor() runs: red and green over every value r.Intn(255) yields.
RandColorCall ==
    /\ UNCHANGED <<captcha, pipe, line>>
    /\ col.pc = "idle"
    /\ \E red \in Intn(255), green \in Intn(255) :
         col' = [ColIdle EXCEPT !.pc = "randColor", !.red = red,
                                !.green = green,
                                !.out = randColor(red, green)]

\* randDeepColor() goes on from the colour its call of randColor() returned:
\* it draws the increase and darkens each channel.
RandDeepColorCall ==
    /\ UNCHANGED <<captcha, pipe, line>>
    /\ col.pc = "randColor"
    /\ \E i \in IntnSample(255) :
         LET increase == 30 + i
             base     == col.out
         IN  \E c \in randDeepColor(base, increase) :
               col' = [col EXCEPT !.pc = "randDeepColor",
                                  !.increase = increase,
                                  !.raw = <<deepChannel(base.R, increase),
                                            deepChannel(base.G, increase),
                                            deepChannel(base.B, increase)>>,
                                  !.out = c]

\* The helper returns; the next call starts afresh.
ColorReturn ==
    /\ UNCHANGED <<captcha, pipe, line>>
    /\ col.pc \in {"randColor", "randDeepColor"}
    /\ col' = ColIdle

InitColor ==
    /\ col = ColIdle
    /\ captcha = NoCanvas
    /\ made = [width |-> 0, height |-> 0, bgColor |-> NoColor]
    /\ fontFamily = <<>>
    /\ panic = "none"
    /\ ops = 0
    /\ last = NoCall
    /\ line = LineIdle
    /\ r = 0
    /\ gen = GenIdle

NextColor == RandColorCall \/ RandDeepColorCall \/ ColorReturn

SpecColor == InitColor /\ [][NextColor]_vars

(***************************************************************************)
(* Claims about the colour helpers (SpecColor).                            *)
(***************************************************************************)
Clamp(v, lo, hi) == IF v < lo THEN lo ELSE IF v > hi THEN hi ELSE v

\* C6: for every red and green the random source yields, randColor returns
\* alpha 255, blue = clamp(400 - red - green, 0, 255) when red + green <= 400
\* and blue = 0 when red + green > 400; so blue is in 0..255 and
\* red + green + blue <= 400 whenever red + green <= 400.
C6_RandColorBlue ==
    col.pc = "randColor" =>
        /\ col.out.A = 255
        /\ col.out.R = col.red /\ col.out.G = col.green
        /\ col.out.B \in 0..255
        /\ col.red + col.green <= 400 =>
             /\ col.out.B = Clamp(400 - col.red - col.green, 0, 255)
             /\ col.red + col.green + col.out.B <= 400
        /\ col.red + col.green > 400 => col.out.B = 0

\* C6's case: randColor has returned for draws whose 400 - red - green
\* exceeds 255, so the clamp decided blue.
C6_Witness ==
    /\ col.pc = "randColor"
    /\ 400 - col.red - col.green > 255
    /\ col.out.B = 255

\* C10 as claimed: for every base colour of randColor and every increase in
\* 30..284, each channel value randDeepColor computes, abs(min(channel -
\* increase, 255)), lies in 0..255 (storing it in a uint8 loses nothing), and
\* alpha is 255.
C10_DeepChannelsFitByte ==
    col.pc = "randDeepColor" =>
        /\ \A i \in 1..3 : col.raw[i] \in 0..255
        /\ col.out.A = 255

(***************************************************************************)
(* Claims about drawBeeline (SpecLine, SpecLineFair).                      *)
(***************************************************************************)
\* drawBeeline has returned from p1 = (0,0), p2 = (10,0) on an error-free
\* canvas.
BeelineRan0To10 ==
    /\ line.pc = "done"
    /\ captcha.Error = "nil"
    /\ line.from = Point(0, 0)
    /\ line.b.point2 = Point(10, 0)

\* C7 as claimed: drawBeeline from (0,0) to (10,0) paints, for every x in
\* 0..10, the pixels (x, y) with y in -2..2 that lie inside the canvas.
C7_PaintsFiveRows ==
    BeelineRan0To10 =>
        \A x \in 0..10, y \in -2..2 :
            <<x, y>> \in DOMAIN captcha.nrgba =>
                captcha.nrgba[<<x, y>>] = NRGBAConvert(line.lineColor)

\* C7 amended: drawBeeline from (0,0) to (10,0) paints the pixels (x, 0) with
\* x in -2..12 that lie inside the canvas (each stepped point widened by two
\* pixels to either side in its own row), and every other pixel keeps the
\* value it had before the call.
C7_PaintsRowZero ==
    BeelineRan0To10 =>
        \A p \in DOMAIN captcha.nrgba :
            captcha.nrgba[p] =
                IF p[2] = 0 /\ p[1] \in -2..12
                THEN NRGBAConvert(line.lineColor)
                ELSE line.before[p]

\* C7's case: the line has been drawn on a canvas that has a row 1, row 0 is
\* painted and row 1 is not.
C7_Witness ==
    /\ BeelineRan0To10
    /\ <<0, 1>> \in DOMAIN captcha.nrgba
    /\ captcha.nrgba[<<0, 0>>] = NRGBAConvert(line.lineColor)
    /\ captcha.nrgba[<<0, 1>>] # NRGBAConvert(line.lineColor)

\* C8: for every pair of integer points the stepping loop of drawBeeline
\* terminates: each iteration moves the current point by at most one in x and
\* one in y, the loop eventually returns, and it returns at the iteration in
\* which the current point equals p2.
C8_BeelineTerminates ==
    /\ [][line.pc = "loop" /\ line'.pc = "loop" =>
            /\ Abs(line'.b.point1.X - line.b.point1.X) <= 1
            /\ Abs(line'.b.point1.Y - line.b.point1.Y) <= 1]_vars
    /\ [](line.pc = "done" /\ captcha.Error = "nil" =>
            line.b.point1 = line.b.point2)
    /\ (line.pc = "loop") ~> (line.pc = "done")

\* C8's case: a loop that had to step in both directions has returned.
C8_Witness ==
    /\ line.pc = "done"
    /\ line.iters > 2
    /\ line.from.X # line.b.point2.X
    /\ line.from.Y # line.b.point2.Y
    /\ line.b.point1 = line.b.point2

(***************************************************************************)
(* The pipeline's claims (Spec).                                           *)
(***************************************************************************)
\* C1: once an operation has set the canvas Error, every later drawing
\* operation applied to the canvas returns normally, leaves every pixel of
\* the buffer unchanged and leaves Error equal to the error it found.
C1_StickyError ==
    [][(captcha.Error # "nil" /\ last'.op \in DrawOps /\ ops' = ops + 1)
         => /\ captcha'.nrgba = captcha.nrgba
            /\ captcha'.Error = captcha.Error
            /\ panic' = "none"]_vars

\* A drawing operation has been applied to a canvas whose Error was set.
C1_Witness ==
    /\ last.op \in DrawOps
    /\ last.errBefore # "nil"
    /\ captcha.Error = last.errBefore

\* C2: exporting a canvas whose Error is set, with SaveImage in a supported
\* format or with Save, returns the stored error and produces no bytes.
C2_ExportSurfacesError ==
    (/\ last.op \in Exports
     /\ last.arg \in {ImageFormatPng, ImageFormatJpeg, ImageFormatGif}
     /\ last.errBefore # "nil")
        => (last.err = last.errBefore /\ last.out = <<>>)

\* C3: with an empty font registry, DrawText of a non-empty text on an
\* error-free canvas returns normally, with Error set and no pixel changed.
C3_EmptyRegistryIsAnError ==
    (/\ last.op = "DrawText"
     /\ last.arg > 0
     /\ last.errBefore = "nil"
     /\ last.fonts = 0)
        => (panic = "none" /\ captcha.Error # "nil" /\ ~last.changed)

\* C4: SaveImage with a format other than PNG, JPEG and GIF returns the
\* 'not supported image format' error, calls no encoder, writes nothing and
\* leaves the canvas (pixels and Error) as it was.
C4_UnknownFormat ==
    [][(/\ last'.op = "SaveImage"
        /\ last'.arg \notin {ImageFormatPng, ImageFormatJpeg, ImageFormatGif})
         => /\ last'.err = "not supported image format"
            /\ last'.encoder = "none"
            /\ last'.out = <<>>
            /\ captcha' = captcha]_vars

\* SaveImage has refused a format on a canvas that has been drawn on.
C4_Witness ==
    /\ last.op = "SaveImage"
    /\ last.arg \notin {ImageFormatPng, ImageFormatJpeg, ImageFormatGif}
    /\ last.err = "not supported image format"
    /\ ops > 0

\* The canvas is as New returned it: no drawing operation applied.
Fresh == ops = 0

\* C5 as stated: the canvas New returns is width by height and every pixel
\* equals the background colour, whatever the colour.
C5_EveryPixelIsBg ==
    Fresh => /\ DOMAIN captcha.nrgba = Rect(made.width, made.height)
             /\ \A p \in DOMAIN captcha.nrgba :
                  captcha.nrgba[p] = made.bgColor

\* C5 as the code has it: the canvas New returns is width by height with
\* width*height pixels, and every pixel equals the background colour when
\* that colour is opaque; every pixel has the background's alpha.
C5_OpaquePixelsAreBg ==
    Fresh => /\ DOMAIN captcha.nrgba = Rect(made.width, made.height)
             /\ Cardinality(DOMAIN captcha.nrgba) = made.width * made.height
             /\ captcha.width = made.width /\ captcha.height = made.height
             /\ \A p \in DOMAIN captcha.nrgba :
                  /\ captcha.nrgba[p].A = made.bgColor.A
                  /\ made.bgColor.A = 255 => captcha.nrgba[p] = made.bgColor

\* A canvas with an opaque background, as New returned it.
C5_Witness ==
    /\ Fresh
    /\ last.op = "none"
    /\ made.bgColor.A = 255
    /\ made.width = 20
    /\ Cardinality(DOMAIN captcha.nrgba) = 20

(***************************************************************************)
(* Concurrent image generation in the shared-global variant (SpecRace):    *)
(* two goroutines, each with a canvas of its own, run DrawNoise.  Every    *)
(* r.Intn is a read of the generator's state followed by a write of the    *)
(* next state; nothing orders the reads and writes of the two goroutines.  *)
(***************************************************************************)
\* The states of the generator, and the seeds it may start from.
RngPeriod == 2

RngSeeds == 1

\* The state after one draw, and the value r.Intn(n) makes of a state.
RngNext(s) == (s + 1) % RngPeriod

RngIntn(s, n) == s % n

Goroutines == {1, 2}

\* The canvas each goroutine constructs.
RaceDim == <<3, 3>>

\* A goroutine before its call of DrawNoise.
GenStart ==
    [captcha |-> New(RaceDim[1], RaceDim[2], RGBA(255, 255, 255, 255)),
     pc |-> "idle", inside |-> FALSE, seen |-> 0, i |-> 0, maxSize |-> 0,
     rw |-> 0, rh |-> 0, red |-> 0, green |-> 0]

\* The positions at which a goroutine calls r.Intn: rw, rh, the three draws
\* of the first randColor, size, the three draws of the second randColor.
IntnSites ==
    {"rw", "rh", "red", "green", "blue", "size", "red2", "green2", "blue2"}

\* The argument of r.Intn at the position of locals l.
IntnArg(l) ==
    IF l.pc = "rw" THEN l.captcha.width
    ELSE IF l.pc = "rh" THEN l.captcha.height
    ELSE IF l.pc = "size" THEN l.maxSize
    ELSE 255

\* The locals when an iteration of the loop ends: rw and rh go out of scope.
endIteration(l) == [l EXCEPT !.rw = 0, !.rh = 0, !.i = @ + 1, !.pc = "loop"]

\* The locals after r.Intn at the position of l has returned v.  randColor
\* overwrites its third draw; a size that is no multiple of 3 ends the
\* iteration.
afterIntn(l, v) ==
    IF l.pc = "rw" THEN [l EXCEPT !.rw = v, !.pc = "rh"]
    ELSE IF l.pc = "rh" THEN [l EXCEPT !.rh = v, !.pc = "red"]
    ELSE IF l.pc = "red" THEN [l EXCEPT !.red = v, !.pc = "green"]
    ELSE IF l.pc = "green" THEN [l EXCEPT !.green = v, !.pc = "blue"]
    ELSE IF l.pc = "blue" THEN [l EXCEPT !.pc = "set"]
    ELSE IF l.pc = "size"
    THEN IF v % 3 = 0 THEN [l EXCEPT !.pc = "red2"] ELSE endIteration(l)
    ELSE IF l.pc = "red2" THEN [l EXCEPT !.red = v, !.pc = "green2"]
    ELSE IF l.pc = "green2" THEN [l EXCEPT !.green = v, !.pc = "blue2"]
    ELSE [l EXCEPT !.pc = "set2"]

\* A Set that writes to the canvas of goroutine 1, whoever calls it (the
\* mutant of C9).
noiseSet_Global(pipelines, g, x, y, c) ==
    [pipelines EXCEPT ![1].captcha.nrgba = Set(@, x, y, c)]

\* captcha.nrgba.Set(x, y, c) in goroutine g: captcha is g's own canvas.
noiseSet(pipelines, g, x, y, c) ==
    [pipelines EXCEPT ![g].captcha.nrgba = Set(@, x, y, c)]

\* Goroutine g calls DrawNoise(complex) on its canvas.
NoiseCall(g) ==
    /\ gen[g].pc = "idle"
    /\ gen[g].captcha.Error = "nil"
    /\ \E complex \in Complexities :
         gen' = [gen EXCEPT ![g].pc = "loop", ![g].i = 0,
                            ![g].maxSize =
                                (gen[g].captcha.height * gen[g].captcha.width)
                                    \div noiseDensity(complex)]
    /\ UNCHANGED <<captcha, made, fontFamily, panic, ops, last, line, col, r>>

\* The loop test of DrawNoise.
NoiseLoop(g) ==
    /\ gen[g].pc = "loop"
    /\ gen' = [gen EXCEPT ![g].pc = IF gen[g].i < gen[g].maxSize THEN "rw"
                                    ELSE "done"]
    /\ UNCHANGED <<captcha, made, fontFamily, panic, ops, last, line, col, r>>

\* r.Intn, first half: goroutine g reads the state of the generator.
IntnLoad(g) ==
    /\ gen[g].pc \in IntnSites
    /\ ~gen[g].inside
    /\ gen' = [gen EXCEPT ![g].inside = TRUE, ![g].seen = r]
    /\ UNCHANGED <<captcha, made, fontFamily, panic, ops, last, line, col, r>>

\* r.Intn, second half: goroutine g writes the next state and returns the
\* value of the state it read.
IntnStore(g) ==
    /\ gen[g].pc \in IntnSites
    /\ gen[g].inside
    /\ r' = RngNext(gen[g].seen)
    /\ gen' = [gen EXCEPT ![g] =
                  afterIntn([@ EXCEPT !.inside = FALSE, !.seen = 0],
                            RngIntn(gen[g].seen, IntnArg(gen[g])))]
    /\ UNCHANGED <<captcha, made, fontFamily, panic, ops, last, line, col>>

\* The two Set calls of an iteration, each with the colour randColor has
\* returned; the second ends the iteration.
NoiseSet(g) ==
    /\ gen[g].pc \in {"set", "set2"}
    /\ LET l == gen[g]
           c == randColor(l.red, l.green)
           drawn == [l EXCEPT !.red = 0, !.green = 0]
       IN  IF l.pc = "set"
           THEN gen' = noiseSet([gen EXCEPT ![g] = [drawn EXCEPT
                                                      !.pc = "size"]],
                                g, l.rw, l.rh, c)
           ELSE gen' = noiseSet([gen EXCEPT ![g] = endIteration(drawn)],
                                g, l.rw + 1, l.rh + 1, c)
    /\ UNCHANGED <<captcha, made, fontFamily, panic, ops, last, line, col, r>>

\* The generator seeded, two goroutines with a fresh canvas each.
InitRace ==
    /\ r \in 0..(RngSeeds - 1)
    /\ gen = [g \in Goroutines |-> GenStart]
    /\ captcha = NoCanvas
    /\ made = [width |-> 0, height |-> 0, bgColor |-> NoColor]
    /\ fontFamily = <<>>
    /\ panic = "none"
    /\ ops = 0
    /\ last = NoCall
    /\ line = LineIdle
    /\ col = ColIdle

NextRace ==
    \E g \in Goroutines :
        \/ NoiseCall(g)
        \/ NoiseLoop(g)
        \/ IntnLoad(g)
        \/ IntnStore(g)
        \/ NoiseSet(g)

SpecRace == InitRace /\ [][NextRace]_vars

OnBorder(p) ==
    \/ p[1] = 0 \/ p[1] = captcha.width - 1
    \/ p[2] = 0 \/ p[2] = captcha.height - 1

\* DrawBorder has just been applied to a canvas with no Error set.
BorderDrawn == last.op = "DrawBorder" /\ last.errBefore = "nil"

\* C11 as stated: after DrawBorder(color) on a canvas with no Error set,
\* every pixel of the four edges equals color, every other pixel keeps the
\* value it had before the call, and Error stays unset.
C11_BorderEqualsColor ==
    BorderDrawn
      => /\ panic = "none" /\ captcha.Error = "nil"
         /\ \A p \in DOMAIN captcha.nrgba :
              IF OnBorder(p) THEN captcha.nrgba[p] = last.arg
              ELSE captcha.nrgba[p] = last.before[p]

\* C11 as the code has it: after DrawBorder(color) on a canvas with no
\* Error set, every pixel of the four edges has color's alpha and, when
\* color is opaque, equals color; every other pixel keeps the value it had
\* before the call; the buffer keeps its bounds and Error stays unset.
C11_BorderFrame ==
    BorderDrawn
      => /\ panic = "none" /\ captcha.Error = "nil"
         /\ DOMAIN captcha.nrgba = DOMAIN last.before
         /\ \A p \in DOMAIN captcha.nrgba :
              IF OnBorder(p)
              THEN /\ captcha.nrgba[p].A = last.arg.A
                   /\ last.arg.A = 255 => captcha.nrgba[p] = last.arg
              ELSE captcha.nrgba[p] = last.before[p]

\* An opaque border has been drawn around an inner pixel that an earlier
\* operation had painted, and over edge pixels of another colour.
C11_Witness ==
    /\ BorderDrawn
    /\ last.arg.A = 255
    /\ \E p \in DOMAIN captcha.nrgba :
         /\ ~OnBorder(p)
         /\ captcha.nrgba[p] # NRGBAConvert(made.bgColor)
    /\ \E p \in DOMAIN captcha.nrgba :
         OnBorder(p) /\ last.before[p] # captcha.nrgba[p]

====
